---- MODULE Spec2Model ----
(***************************************************************************)
(* The hook usage examples of src/HooksCheetSheet.tsx, each modelled as a  *)
(* component instance driven by the host framework: the host renders a     *)
(* component, commits the render unless it threw, runs its effects after   *)
(* the commit, delivers DOM events to the handlers it registered, and runs *)
(* the continuation of a fetch when the network answers.                   *)
(*                                                                         *)
(* Example names: US UseStateExample, UR UseReducerExample, UE             *)
(* UseEffectExample, ULE UseLayoutEffectExample, UM UseMemoExample, UC     *)
(* UseCallbackExample, UD UseDeferredValueExample, MC MyComponent.         *)
(***************************************************************************)
EXTENDS Integers, Sequences, FiniteSets, TLC

\* ---------------------------------------------------------------- bounds
\* setCount(count + 1) has no upper limit in the source; the model stops
\* clicking at MaxCount.
MaxCount == 2
\* Clicks delivered to UseStateExample's button.
MaxClicks == 2
\* Dispatches of each kind of action handed to the reducer.
MaxDispatch == 4
\* Fetch counters saturate here.
MaxFetches == 2

\* ---------------------------------------------------------------- values
Examples == {"US", "UR", "UE", "ULE", "UM", "UC", "UD", "MC"}
StatefulExamples == {"US", "UR", "UE", "ULE", "UM", "UC", "UD"}
EffectExamples == {"UE", "ULE"}
Fetchers == {"UE", "ULE", "MC"}

\* What the unspecified endpoint may answer: a body whose JSON has a data
\* field, or one that has none.
Bodies == {"withData", "withoutData"}
\* Texts typed into UseDeferredValueExample's input.
Inputs == {"", "a"}
\* Action types handed to the reducer: the two it names and one it does not.
ActionTypes == {"increment", "decrement", "reset"}

\* useState([]): an array, which has no data property.
EmptyList == [kind |-> "array", hasData |-> FALSE, body |-> "none"]
\* What fetch resolves with: a Response object, which has no data property.
Responses == {[kind |-> "Response", hasData |-> FALSE, body |-> b] : b \in Bodies}
\* res.json(): the parsed body.
Json(res) == [kind |-> "json", hasData |-> (res.body = "withData"), body |-> res.body]

Sat(n) == IF n < MaxFetches THEN n + 1 ELSE n

VARIABLES
    cell,        \* the useState/useReducer cell of each stateful example
    us_status, us_shown, us_dirty, us_clicks, us_stale,
    ur_status, ur_shown, ur_dirty, ur_nInc, ur_nDec, ur_nOther, ur_last, ur_before,
    e_status, e_dirty, e_fetches,
    inflight,    \* fetches started and not yet answered, per example
    um_status, um_shown, um_prev, um_first, um_memo, um_computed, um_display,
    uc_status, uc_shown, uc_dirty, uc_renders, uc_handleClick, uc_childProp,
    uc_childRenders,
    ud_status, ud_shown, ud_dirty,
    mc_status, mc_promise, mc_pinged, mc_fetches

us_vars == <<us_status, us_shown, us_dirty, us_clicks, us_stale>>
ur_vars == <<ur_status, ur_shown, ur_dirty, ur_nInc, ur_nDec, ur_nOther, ur_last,
             ur_before>>
e_vars == <<e_status, e_dirty, e_fetches>>
um_vars == <<um_status, um_shown, um_prev, um_first, um_memo, um_computed, um_display>>
uc_vars == <<uc_status, uc_shown, uc_dirty, uc_renders, uc_handleClick, uc_childProp,
             uc_childRenders>>
ud_vars == <<ud_status, ud_shown, ud_dirty>>
mc_vars == <<mc_status, mc_promise, mc_pinged, mc_fetches>>
vars == <<cell, us_vars, ur_vars, e_vars, inflight, um_vars, uc_vars, ud_vars, mc_vars>>

\* ------------------------------------------------------- host framework
\* The host keeps a hook's state on the component instance that called the
\* hook.
HookOwnerShared(c) == IF c \in {"US", "UM", "UC"} THEN "US" ELSE c
HookOwner(c) == c

\* The host registers a handler only for a prop that is one of its event
\* names, which are camelCase; any other prop holding a function is dropped.
IsEventHandlerProp(p) == p \in {"onClick", "onChange"}

US_ButtonProp == "onclick"
UR_ButtonProp == "onclick"
UM_ButtonProp == "onClick"
UC_ButtonProp == "onClick"
UD_InputProp == "onChange"

NoMemo == [valid |-> FALSE, deps |-> 0, value |-> 0]
NoCallback == [valid |-> FALSE, fn |-> 0]
NoPromise == "none"

Init ==
    /\ cell = [c \in StatefulExamples |->
                 CASE c \in {"US", "UM", "UC"} -> 0
                   [] c = "UR" -> [count |-> 0]
                   [] c \in EffectExamples -> EmptyList
                   [] c = "UD" -> ""]
    /\ us_status = "mounting" /\ us_shown = 0 /\ us_dirty = FALSE
    /\ us_clicks = 0 /\ us_stale = FALSE
    /\ ur_status = "mounting" /\ ur_shown = 0 /\ ur_dirty = FALSE
    /\ ur_nInc = 0 /\ ur_nDec = 0 /\ ur_nOther = 0
    /\ ur_last = "none" /\ ur_before = [count |-> 0]
    /\ e_status = [c \in EffectExamples |-> "mounting"]
    /\ e_dirty = [c \in EffectExamples |-> FALSE]
    /\ e_fetches = [c \in EffectExamples |-> 0]
    /\ inflight = [c \in Fetchers |-> 0]
    /\ um_status = "mounting" /\ um_shown = 0 /\ um_prev = 0 /\ um_first = FALSE
    /\ um_memo = NoMemo /\ um_computed = FALSE /\ um_display = 0
    /\ uc_status = "mounting" /\ uc_shown = 0 /\ uc_dirty = FALSE /\ uc_renders = 0
    /\ uc_handleClick = NoCallback /\ uc_childProp = 0 /\ uc_childRenders = 0
    /\ ud_status = "mounting" /\ ud_shown = "" /\ ud_dirty = FALSE
    /\ mc_status = "mounting" /\ mc_promise = NoPromise /\ mc_pinged = FALSE
    /\ mc_fetches = 0

\* ------------------------------------------------------ UseStateExample
US_Render ==
    /\ us_status = "mounting" \/ us_dirty
    /\ us_status' = "rendered"
    /\ us_shown' = cell["US"]
    /\ us_dirty' = FALSE
    /\ UNCHANGED <<cell, us_clicks, us_stale, ur_vars, e_vars, inflight, um_vars,
                   uc_vars, ud_vars, mc_vars>>

\* A click on the button; the handler is () => setCount(count + 1), count
\* being the value the last render saw.
US_Click ==
    /\ us_status = "rendered"
    /\ us_clicks < MaxClicks
    /\ us_clicks' = us_clicks + 1
    /\ IF IsEventHandlerProp(US_ButtonProp)
       THEN /\ cell' = [cell EXCEPT ![HookOwner("US")] = us_shown + 1]
            /\ us_dirty' = TRUE
            /\ us_stale' = (us_stale \/ us_dirty)
       ELSE UNCHANGED <<cell, us_dirty, us_stale>>
    /\ UNCHANGED <<us_status, us_shown, ur_vars, e_vars, inflight, um_vars, uc_vars,
                   ud_vars, mc_vars>>

\* ---------------------------------------------------- UseReducerExample
reducerDecrementAdds(state, action) ==
    CASE action.type = "increment" -> [count |-> state.count + 1]
      [] action.type = "decrement" -> [count |-> state.count + 1]
      [] OTHER -> state
reducer(state, action) ==
    CASE action.type = "increment" -> [count |-> state.count + 1]
      [] action.type = "decrement" -> [count |-> state.count - 1]
      [] OTHER -> state

\* dispatch(action): the host stores reducer(state, action) in the cell and
\* re-renders unless the reducer returned the state it was given. ur_nInc,
\* ur_nDec and ur_nOther count the actions dispatched, ur_last and ur_before
\* record the last one and the state it was applied to.
Dispatch(action) ==
    LET next == reducer(cell["UR"], action) IN
    /\ cell' = [cell EXCEPT ![HookOwner("UR")] = next]
    /\ ur_dirty' = (ur_dirty \/ next # cell["UR"])
    /\ ur_nInc' = IF action.type = "increment" THEN ur_nInc + 1 ELSE ur_nInc
    /\ ur_nDec' = IF action.type = "decrement" THEN ur_nDec + 1 ELSE ur_nDec
    /\ ur_nOther' = IF action.type \notin {"increment", "decrement"}
                    THEN ur_nOther + 1 ELSE ur_nOther
    /\ ur_last' = action.type
    /\ ur_before' = cell["UR"]

UR_Render ==
    /\ ur_status = "mounting" \/ ur_dirty
    /\ ur_status' = "rendered"
    /\ ur_shown' = cell["UR"].count
    /\ ur_dirty' = FALSE
    /\ UNCHANGED <<cell, ur_nInc, ur_nDec, ur_nOther, ur_last, ur_before, us_vars,
                   e_vars, inflight, um_vars, uc_vars, ud_vars, mc_vars>>

\* A click on the button; the handler is () => dispatch({type: "increment"}).
UR_Click ==
    /\ ur_status = "rendered"
    /\ IF IsEventHandlerProp(UR_ButtonProp)
       THEN /\ ur_nInc < MaxDispatch
            /\ Dispatch([type |-> "increment"])
       ELSE UNCHANGED <<cell, ur_dirty, ur_nInc, ur_nDec, ur_nOther, ur_last, ur_before>>
    /\ UNCHANGED <<ur_status, ur_shown, us_vars, e_vars, inflight, um_vars, uc_vars,
                   ud_vars, mc_vars>>

\* The dispatch function of the rendered component called with an action of
\* type t: the reducer applied to arbitrary actions.
UR_Dispatch(t) ==
    /\ ur_status = "rendered"
    /\ CASE t = "increment" -> ur_nInc < MaxDispatch
         [] t = "decrement" -> ur_nDec < MaxDispatch
         [] OTHER -> ur_nOther < MaxDispatch
    /\ Dispatch([type |-> t])
    /\ UNCHANGED <<ur_status, ur_shown, us_vars, e_vars, inflight, um_vars, uc_vars,
                   ud_vars, mc_vars>>

\* ------------------------------ UseEffectExample, UseLayoutEffectExample
\* {response.data.map(...)}: a TypeError when response has no data property.
RenderBodyGuarded(response) == "ok"
RenderBody(response) == IF response.hasData THEN "ok" ELSE "throw"

\* The second argument of the effect hook: [] in UseEffectExample, absent in
\* UseLayoutEffectExample.
EffectDeps(c) == IF c = "UE" THEN "empty" ELSE "absent"

\* Whether the host runs the effect after a commit: with an empty dependency
\* list after the first commit only, without a list after every commit.
EffectFires(c, firstCommit) == IF EffectDeps(c) = "empty" THEN firstCommit ELSE TRUE

\* The value the effect hands to setResponse: res itself.
EffectWritesParsed(res) == Json(res)
EffectWrites(res) == res

\* A render of an effect example. A render that throws is not committed: the
\* host unmounts the component and none of its effects run. A committed
\* render is followed by its effect, which starts a fetch.
EffectRender(c) ==
    /\ e_status[c] = "mounting" \/ (e_status[c] = "committed" /\ e_dirty[c])
    /\ e_dirty' = [e_dirty EXCEPT ![c] = FALSE]
    /\ IF RenderBody(cell[c]) = "throw"
       THEN /\ e_status' = [e_status EXCEPT ![c] = "crashed"]
            /\ UNCHANGED <<e_fetches, inflight>>
       ELSE /\ e_status' = [e_status EXCEPT ![c] = "committed"]
            /\ IF EffectFires(c, e_status[c] = "mounting")
               THEN /\ e_fetches' = [e_fetches EXCEPT ![c] = Sat(@)]
                    /\ inflight' = [inflight EXCEPT ![c] = Sat(@)]
               ELSE UNCHANGED <<e_fetches, inflight>>
    /\ UNCHANGED <<cell, us_vars, ur_vars, um_vars, uc_vars, ud_vars, mc_vars>>

UE_Render == EffectRender("UE")
ULE_Render == EffectRender("ULE")

\* ------------------------------------------------------- UseMemoExample
expensiveComputation(num) == num * 2

\* useMemo(() => expensiveComputation(count), [count]): the host calls the
\* function on the first render and when count is not the count the cached
\* value was computed for, and returns the cached value otherwise.
useMemoNeverRecomputes(cache, count) ==
    IF ~cache.valid
    THEN [cache |-> [valid |-> TRUE, deps |-> count,
                     value |-> expensiveComputation(count)],
          computed |-> TRUE]
    ELSE [cache |-> cache, computed |-> FALSE]
useMemo(cache, count) ==
    IF ~cache.valid \/ cache.deps # count
    THEN [cache |-> [valid |-> TRUE, deps |-> count,
                     value |-> expensiveComputation(count)],
          computed |-> TRUE]
    ELSE [cache |-> cache, computed |-> FALSE]

\* A render: after a state write, or whenever the host renders the component
\* again with its state as it is.
UM_Render ==
    LET count == cell["UM"]
        memo == useMemo(um_memo, count) IN
    /\ um_status' = "rendered"
    /\ um_first' = (um_status = "mounting")
    /\ um_prev' = um_shown
    /\ um_shown' = count
    /\ um_memo' = memo.cache
    /\ um_computed' = memo.computed
    /\ um_display' = memo.cache.value
    /\ UNCHANGED <<cell, us_vars, ur_vars, e_vars, inflight, uc_vars, ud_vars, mc_vars>>

\* A click on Increment; the handler is () => setCount(count + 1).
UM_Click ==
    /\ um_status = "rendered"
    /\ um_shown < MaxCount
    /\ IF IsEventHandlerProp(UM_ButtonProp)
       THEN cell' = [cell EXCEPT ![HookOwner("UM")] = um_shown + 1]
       ELSE UNCHANGED cell
    /\ UNCHANGED <<us_vars, ur_vars, e_vars, inflight, um_vars, uc_vars, ud_vars,
                   mc_vars>>

\* --------------------------------------------------- UseCallbackExample
\* useCallback(fn, []): the function of the first render, on every render.
useCallbackFresh(cache, fn) == [valid |-> TRUE, fn |-> fn]
useCallback(cache, fn) == IF cache.valid THEN cache ELSE [valid |-> TRUE, fn |-> fn]

\* React.memo(ChildComponent): the child renders when it is mounted and when
\* a prop is not the one it was last rendered with.
ChildRenders(mounted, prevOnClick, onClick) == ~mounted \/ prevOnClick # onClick

\* A render of the parent. The arrow function written in the render is a new
\* function on every render: it is named by the number of the render.
UC_Render ==
    LET fn == uc_renders + 1
        handleClick == useCallback(uc_handleClick, fn) IN
    /\ uc_status = "mounting" \/ uc_dirty
    /\ uc_status' = "rendered"
    /\ uc_renders' = uc_renders + 1
    /\ uc_shown' = cell["UC"]
    /\ uc_dirty' = FALSE
    /\ uc_handleClick' = handleClick
    /\ uc_childProp' = handleClick.fn
    /\ uc_childRenders' =
         IF ChildRenders(uc_status = "rendered", uc_childProp, handleClick.fn)
         THEN uc_childRenders + 1 ELSE uc_childRenders
    /\ UNCHANGED <<cell, us_vars, ur_vars, e_vars, inflight, um_vars, ud_vars, mc_vars>>

\* A click on the parent's Increment; the handler is () => setCount(count + 1).
UC_Click ==
    /\ uc_status = "rendered"
    /\ uc_shown < MaxCount
    /\ IF IsEventHandlerProp(UC_ButtonProp)
       THEN /\ cell' = [cell EXCEPT ![HookOwner("UC")] = uc_shown + 1]
            /\ uc_dirty' = TRUE
       ELSE UNCHANGED <<cell, uc_dirty>>
    /\ UNCHANGED <<uc_status, uc_shown, uc_renders, uc_handleClick, uc_childProp,
                   uc_childRenders, us_vars, ur_vars, e_vars, inflight, um_vars,
                   ud_vars, mc_vars>>

\* ---------------------------------------------- UseDeferredValueExample
\* A render after a state write. useDeferredValue(input) is derived from
\* input by the host and is no state of the example: it is left out.
UD_Render ==
    /\ ud_status = "mounting" \/ ud_dirty
    /\ ud_status' = "rendered"
    /\ ud_shown' = cell["UD"]
    /\ ud_dirty' = FALSE
    /\ UNCHANGED <<cell, us_vars, ur_vars, e_vars, inflight, um_vars, uc_vars, mc_vars>>

\* The text of the input changes to v; the handler is
\* (e) => setInput(e.target.value). A write of the value the cell holds
\* schedules no render.
UD_Change(v) ==
    /\ ud_status = "rendered"
    /\ IF IsEventHandlerProp(UD_InputProp)
       THEN /\ cell' = [cell EXCEPT ![HookOwner("UD")] = v]
            /\ ud_dirty' = (ud_dirty \/ v # cell["UD"])
       ELSE UNCHANGED <<cell, ud_dirty>>
    /\ UNCHANGED <<ud_status, ud_shown, us_vars, ur_vars, e_vars,
                   inflight, um_vars, uc_vars, mc_vars>>

\* ----------------------------------------------------------- MyComponent
\* fetchDataFromAPI(): an async function, so what it returns is a promise
\* that is still pending when the caller gets it.
fetchDataFromAPI == "pending"

\* use(promise): the value of a fulfilled promise; otherwise the render is
\* suspended until the promise settles.
use(promise) == promise = "fulfilled"

\* Every render calls fetchDataFromAPI() and hands the new promise to use().
MC_Render ==
    /\ mc_status = "mounting" \/ (mc_status = "suspended" /\ mc_pinged)
    /\ LET promise == fetchDataFromAPI IN
       /\ mc_fetches' = Sat(mc_fetches)
       /\ inflight' = [inflight EXCEPT !["MC"] = Sat(@)]
       /\ mc_promise' = promise
       /\ mc_status' = IF use(promise) THEN "displayed" ELSE "suspended"
    /\ mc_pinged' = FALSE
    /\ UNCHANGED <<cell, us_vars, ur_vars, e_vars, um_vars, uc_vars, ud_vars>>

\* ------------------------------------------------------------ the network
\* The endpoint answers a fetch of example c with some response, and the
\* code awaiting it continues: the effect examples store what setResponse
\* is given (a state write to an unmounted component is dropped),
\* fetchDataFromAPI fulfils its promise with the parsed body, which wakes the
\* component suspended on it.
FetchResolve(c) ==
    /\ inflight[c] > 0
    /\ inflight' = [inflight EXCEPT ![c] = @ - 1]
    /\ \E res \in Responses :
         IF c \in EffectExamples
         THEN /\ IF e_status[c] = "committed"
                 THEN /\ cell' = [cell EXCEPT ![HookOwner(c)] = EffectWrites(res)]
                      /\ e_dirty' = [e_dirty EXCEPT ![c] = TRUE]
                 ELSE UNCHANGED <<cell, e_dirty>>
              /\ UNCHANGED <<e_status, e_fetches, mc_vars>>
         ELSE /\ mc_promise' = "fulfilled"
              /\ mc_pinged' = TRUE
              /\ UNCHANGED <<cell, e_vars, mc_status, mc_fetches>>
    /\ UNCHANGED <<us_vars, ur_vars, um_vars, uc_vars, ud_vars>>

StateNext == US_Render \/ US_Click \/ UR_Render \/ UR_Click

EffectNext ==
    \/ UE_Render \/ ULE_Render
    \/ MC_Render
    \/ \E c \in Fetchers : FetchResolve(c)

MemoNext ==
    \/ UM_Render \/ UM_Click
    \/ UC_Render \/ UC_Click
    \/ UD_Render
    \/ \E v \in Inputs : UD_Change(v)

ReducerNext == UR_Render \/ \E t \in ActionTypes : UR_Dispatch(t)

Next == StateNext \/ EffectNext \/ MemoNext

\* Every example mounted at once.
Spec == Init /\ [][Next]_vars

\* The examples that memoize or defer.
SpecMemo == Init /\ [][MemoNext]_vars

\* The state examples, the effect examples and MyComponent, with the network.
SpecNet == Init /\ [][StateNext \/ EffectNext]_vars

\* The same, where the host renders MyComponent whenever a render of it is
\* due and the endpoint answers every fetch of MyComponent.
LiveSpecNet ==
    /\ SpecNet
    /\ WF_vars(MC_Render)
    /\ WF_vars(FetchResolve("MC"))

\* The reducer driven by arbitrary dispatches.
SpecReducer == Init /\ [][ReducerNext]_vars

\* ================================================================ claims

\* C1: the reducer adds one to count for "increment", subtracts one for
\* "decrement" and returns the given state for any other type; so from
\* {count: 0} the count is the number of increments dispatched minus the
\* number of decrements dispatched.
C1_ReducerCounts ==
    /\ cell["UR"].count = ur_nInc - ur_nDec
    /\ ur_last = "increment" => cell["UR"].count = ur_before.count + 1
    /\ ur_last = "decrement" => cell["UR"].count = ur_before.count - 1
    /\ ur_last \notin {"none", "increment", "decrement"} => cell["UR"] = ur_before

C1_Witness ==
    /\ ur_nInc >= 1 /\ ur_nDec >= 2 /\ ur_nOther >= 1
    /\ ur_last = "reset"
    /\ cell["UR"].count < 0
    /\ ur_shown = cell["UR"].count

\* C2: after n clicks on UseStateExample's button, each handled after the
\* re-render caused by the one before it, the displayed count is n.
C2_DisplayedCountIsClicks ==
    (us_status = "rendered" /\ ~us_dirty /\ ~us_stale) => us_shown = us_clicks

\* C3: a render of UseMemoExample calls expensiveComputation exactly when it
\* is the first render or count is not what it was at the previous render,
\* and the value displayed is 2 * count at every render.
C3_MemoIsFresh ==
    um_status = "rendered" =>
        /\ um_computed <=> (um_first \/ um_shown # um_prev)
        /\ um_display = 2 * um_shown

C3_Witness ==
    um_status = "rendered" /\ ~um_computed /\ um_shown = 2 /\ um_display = 4

\* C4: handleClick is the function of the first render on every render, and
\* ChildComponent renders once, whatever the clicks on the parent's button.
C4_ChildRendersOnce ==
    uc_status = "rendered" => (uc_handleClick.fn = 1 /\ uc_childRenders = 1)

C4_Witness == uc_renders >= 3 /\ uc_shown >= 2 /\ uc_childRenders = 1

\* Everything that belongs to an example other than e is as it was: the
\* other examples' cells, variables and fetches in flight.
Untouched(e) ==
    /\ cell' = IF e \in StatefulExamples THEN [cell EXCEPT ![e] = cell'[e]] ELSE cell
    /\ e_status' = IF e \in EffectExamples
                   THEN [e_status EXCEPT ![e] = e_status'[e]] ELSE e_status
    /\ e_dirty' = IF e \in EffectExamples
                  THEN [e_dirty EXCEPT ![e] = e_dirty'[e]] ELSE e_dirty
    /\ e_fetches' = IF e \in EffectExamples
                    THEN [e_fetches EXCEPT ![e] = e_fetches'[e]] ELSE e_fetches
    /\ inflight' = IF e \in Fetchers
                   THEN [inflight EXCEPT ![e] = inflight'[e]] ELSE inflight
    /\ e # "US" => UNCHANGED us_vars
    /\ e # "UR" => UNCHANGED ur_vars
    /\ e # "UM" => UNCHANGED um_vars
    /\ e # "UC" => UNCHANGED uc_vars
    /\ e # "UD" => UNCHANGED ud_vars
    /\ e # "MC" => UNCHANGED mc_vars

\* C5: a state write of one example (the click handlers' setCount and
\* dispatch, setInput, the effects' setResponse) leaves the state of every
\* other example as it was, in every interleaving.
C5_NoInterference ==
    [][ /\ US_Click => Untouched("US")
        /\ UR_Click => Untouched("UR")
        /\ UM_Click => Untouched("UM")
        /\ UC_Click => Untouched("UC")
        /\ (\E v \in Inputs : UD_Change(v)) => Untouched("UD")
        /\ \A c \in EffectExamples : FetchResolve(c) => Untouched(c) ]_vars

C5_Witness ==
    /\ cell["UM"] >= 1 /\ cell["UC"] >= 1 /\ cell["UD"] # ""
    /\ cell["US"] = 0 /\ mc_fetches >= 1

\* C6: the first render of each effect example reads response.data while
\* response is still the initial [], so it throws, and no fetch has been
\* answered by then.
C6_FirstRenderThrows ==
    \A c \in EffectExamples :
        e_status[c] # "mounting" =>
            /\ e_status[c] = "crashed"
            /\ cell[c] = EmptyList
            /\ e_fetches[c] = 0

C6_Witness == \A c \in EffectExamples : e_status[c] = "crashed"

C8_EventuallyDisplays == <>(mc_status = "displayed")

\* C9: once UseEffectExample has rendered, exactly one fetch has been started
\* during the mount.
C9_FetchStartedOnce == e_status["UE"] # "mounting" => e_fetches["UE"] = 1

\* C10: once UseLayoutEffectExample has rendered it is never quiescent: a
\* fetch has been started, and a fetch is in flight or a render is due.
C10_NeverQuiescent ==
    e_status["ULE"] # "mounting" =>
        /\ e_fetches["ULE"] >= 1
        /\ inflight["ULE"] > 0 \/ e_dirty["ULE"]
====
